---- MODULE Spec2Model ----
(***************************************************************************)
(* Model of opengamesir: the request queue, the worker loop of main.rs    *)
(* (request dispatch, write queue with ack / timeout bookkeeping, inbound *)
(* packet dispatch) and the profile command builder, reassembler and      *)
(* codec of profile.rs.                                                   *)
(*                                                                         *)
(* Byte buffers are sequences of numbers 0..255; Rust index i is TLA+     *)
(* index i + 1 (see Byte).                                                 *)
(***************************************************************************)
EXTENDS Integers, Sequences, FiniteSets, TLC

\* ------------------------------------------------------------------ bounds

\* Number of Requests enqueued in a run (of any type, by any caller).
MaxRequests == 2

\* Number of answers the device may hold back before one must be delivered.
MaxPending == 2

\* Number of packets the device may send that answer no written command.
MaxUnsolicited == 1

\* Direct calls of the write command builder: data of every length up to
\* MaxDataLen.
MaxDataLen == 180

\* ------------------------------------------------------- program constants

PACKET_DATA_LENGTH == 680

LIGHT_PROFILE_LENGTH == 635

OUT_PACKET_DATA_LENGTH == 58

LIGHT_PROFILE_NUMBER == 32

PACKET_SIZE == 64

GAMEPAD_STATE_REPORT_ID == 18

READ_FIRMWARE_VERSION_ACK == 10

READ_PROFILE_ACK == 5

ACK_TIMEOUT_MS == 200

HEARTBEAT_COMMAND == <<15, 242, 0>>

READ_FW_VERSION_COMMAND == <<15, 9>>

\* ----------------------------------------------------------------- helpers

Min(a, b) == IF a < b THEN a ELSE b

\* data[i] of a Rust slice
Byte(data, i) == data[i + 1]

\* data[lo..hi] of a Rust slice (hi exclusive)
Slice(data, lo, hi) == SubSeq(data, lo + 1, hi)

Zeros(n) == [i \in 1..n |-> 0]

\* [0; 64] with `prefix` written at its start (Cursor::write_all)
Packet64(prefix) == prefix \o Zeros(PACKET_SIZE - Len(prefix))

\* The callers of Controller::request, one per call: caller c holds the
\* receiver of the c-th Request enqueued.
Callers == 1..MaxRequests

None == [type |-> "None"]

Queued == [tag |-> "Queued"]

WaitingForAck(ts) == [tag |-> "WaitingForAck", timestamp |-> ts]

RequestPacket(d, s, n) == [data |-> d, state |-> s, needs_ack |-> n]

\* ------------------------------------------------------- profile.rs: codec

RgbColor_read(buf, pos) ==
    [red |-> Byte(buf, pos), green |-> Byte(buf, pos + 1), blue |-> Byte(buf, pos + 2)]

Frame_read(buf, pos) ==
    [leds |-> [k \in 1..5 |-> RgbColor_read(buf, pos + 3 * (k - 1))]]

Animation_read(buf, pos) ==
    [key_frame_count |-> Byte(buf, pos),
     effect_count    |-> Byte(buf, pos + 1),
     speed           |-> Byte(buf, pos + 2),
     brightness      |-> Byte(buf, pos + 3),
     frames          |-> [k \in 1..8 |-> Frame_read(buf, pos + 4 + 15 * (k - 1))]]

\* Bytes LightProfile::read consumes from the reader.
LightProfileSize == 1 + 5 * (4 + 8 * 15) + 1 + 1 + 3 + 1 + 1 + 7

\* LightProfile::read on a cursor over buf: an error for an empty reader, a
\* config index above 3 or a reader that runs out; the record otherwise.
LightProfile_read(buf) ==
    IF Len(buf) < 1 THEN [ok |-> FALSE, error |-> "short read"]
    ELSE IF Byte(buf, 0) > 3
    THEN [ok |-> FALSE, error |-> "config index must be between 0 and 3"]
    ELSE IF Len(buf) < LightProfileSize THEN [ok |-> FALSE, error |-> "short read"]
    ELSE [ok |-> TRUE,
          profile |->
            [config_index        |-> Byte(buf, 0),
             animations          |-> [k \in 1..5 |-> Animation_read(buf, 1 + 124 * (k - 1))],
             audio_reactive_mode |-> (Byte(buf, 621) = 1),
             user_effect_index   |-> Byte(buf, 622),
             profile_led         |-> RgbColor_read(buf, 623),
             raise_wake_up       |-> (Byte(buf, 626) = 1),
             standby_time        |-> Byte(buf, 627),
             reserved_data       |-> Slice(buf, 628, 635)]]

\* ------------------------------------------- profile.rs: command builder

\* DivCeil rounding down.
DivCeil_Floor(a, b) == a \div b

DivCeil(a, b) == (a + b - 1) \div b

SaturatingSub(a, b) == IF a > b THEN a - b ELSE 0

\* The packets of get_read_profile_command for target length t: packet i
\* (from 0) is built when t has been reduced i times by 58.
ReadProfilePackets(t) ==
    [k \in 1..DivCeil(t, OUT_PACKET_DATA_LENGTH) |->
        Packet64(<<15, 4, LIGHT_PROFILE_NUMBER,
                   ((k - 1) * OUT_PACKET_DATA_LENGTH) \div 256,
                   ((k - 1) * OUT_PACKET_DATA_LENGTH) % 256,
                   Min(SaturatingSub(t, (k - 1) * OUT_PACKET_DATA_LENGTH),
                       OUT_PACKET_DATA_LENGTH)>>)]

get_read_profile_command(is_light_profile) ==
    ReadProfilePackets(IF is_light_profile THEN LIGHT_PROFILE_LENGTH
                                           ELSE PACKET_DATA_LENGTH)

\* `.try_into().unwrap()` of a usize into a u8 panics above 255.
FitsU8(n) == n <= 255

\* Iteration i (from 0) of the `for i in 0..num_packets` loop of
\* build_write_profile_command. Every iteration before the last takes 58
\* bytes, so remaining_bytes is Len(data) - 58 * i when iteration i starts.
WriteProfilePacket(data, start_index, i) ==
    LET remaining_bytes == Len(data) - i * OUT_PACKET_DATA_LENGTH
        packet_start == start_index + i * OUT_PACKET_DATA_LENGTH
        packet_data_size == Min(remaining_bytes, OUT_PACKET_DATA_LENGTH)
        data_start == Len(data) - remaining_bytes
    IN  [panic  |-> ~FitsU8(packet_start \div 256),
         packet |-> Packet64(<<15, 3, 32, packet_start \div 256, packet_start % 256,
                               packet_data_size>>
                             \o Slice(data, data_start, data_start + packet_data_size))]

\* build_write_profile_command: the packets pushed, or a panic of the
\* unwrap of an offset's high byte.
build_write_profile_command(data, start_index) ==
    LET num_packets == DivCeil(Len(data), OUT_PACKET_DATA_LENGTH)
    IN  IF \E i \in 0..(num_packets - 1) : WriteProfilePacket(data, start_index, i).panic
        THEN [panic |-> TRUE]
        ELSE [panic   |-> FALSE,
              packets |-> [k \in 1..num_packets |->
                              WriteProfilePacket(data, start_index, k - 1).packet]]

\* ------------------------------------------------ profile.rs: reassembler

ProfileParser_new == Zeros(635)

\* Splice that inserts the items and removes nothing (Vec::splice with the
\* empty range start..start).
Splice_Insert(buf, start, n, items) ==
    SubSeq(buf, 1, start) \o items \o SubSeq(buf, start + 1, Len(buf))

\* Vec::splice(start..start + n, items): the n elements of the range are
\* removed and the items put in their place.
Splice(buf, start, n, items) ==
    SubSeq(buf, 1, start) \o items \o SubSeq(buf, start + n + 1, Len(buf))

\* ProfileParser::accept without its assert!: of a chunk that overflows the
\* target length, the bytes that fit are stored and Ok(None) is returned.
ProfileParser_accept_Truncating(buf, data) ==
    IF Len(data) < 6 THEN [outcome |-> "panic", color_buf |-> buf]
    ELSE
    LET profile_index      == Byte(data, 2)
        start_index        == 256 * Byte(data, 3) + Byte(data, 4)
        packet_data_length == Byte(data, 5)
        cumulative_packet_length == start_index + packet_data_length
        is_complete == cumulative_packet_length = 635
        fitting == Min(Min(packet_data_length, Len(data) - 6),
                       SaturatingSub(635, start_index))
        spliced == Splice(buf, Min(start_index, 635), fitting,
                          Slice(data, 6, 6 + fitting))
        read    == LightProfile_read(spliced)
    IN  IF profile_index # LIGHT_PROFILE_NUMBER
        THEN [outcome |-> "panic", color_buf |-> buf]
        ELSE IF ~(cumulative_packet_length <= 635)
        THEN [outcome |-> "none", color_buf |-> spliced]
        ELSE IF 6 + packet_data_length > Len(data)
        THEN [outcome |-> "panic", color_buf |-> buf]
        ELSE IF ~is_complete
        THEN [outcome |-> "none", color_buf |-> spliced]
        ELSE IF ~read.ok
        THEN [outcome |-> "err", color_buf |-> spliced]
        ELSE [outcome |-> "some", color_buf |-> spliced, profile |-> read.profile]

\* ProfileParser::accept(&mut self, data), with self.color_buf = buf.
\*   outcome "panic"  the todo!() of an unsupported profile kind, the
\*                    assert! on an overflowing chunk, an index out of range
\*           "err"    Err(..) of the decode
\*           "none"   Ok(None)
\*           "some"   Ok(Some(Profile::Light(profile)))
ProfileParser_accept(buf, data) ==
    IF Len(data) < 6 THEN [outcome |-> "panic", color_buf |-> buf]
    ELSE
    LET profile_index      == Byte(data, 2)
        start_index        == 256 * Byte(data, 3) + Byte(data, 4)
        packet_data_length == Byte(data, 5)
        target_packet_length ==
            IF profile_index = LIGHT_PROFILE_NUMBER THEN 635 ELSE 680
        cumulative_packet_length == start_index + packet_data_length
        is_complete == cumulative_packet_length = target_packet_length
        spliced == Splice(buf, start_index, packet_data_length,
                          Slice(data, 6, 6 + packet_data_length))
        read    == LightProfile_read(spliced)
    IN  IF profile_index # LIGHT_PROFILE_NUMBER
        THEN [outcome |-> "panic", color_buf |-> buf]
        ELSE IF ~(cumulative_packet_length <= target_packet_length)
        THEN [outcome |-> "panic", color_buf |-> buf]
        ELSE IF 6 + packet_data_length > Len(data)
        THEN [outcome |-> "panic", color_buf |-> buf]
        ELSE IF ~is_complete
        THEN [outcome |-> "none", color_buf |-> spliced]
        ELSE IF ~read.ok
        THEN [outcome |-> "err", color_buf |-> spliced]
        ELSE [outcome |-> "some", color_buf |-> spliced, profile |-> read.profile]

\* --------------------------------------------------------------- the device

\* The config index byte of the stored profile: one the codec accepts and
\* one it rejects.
DeviceConfigs == {1, 4}

\* The lighting profile the device stores: the config index, then bytes
\* that are never zero.
DeviceProfiles ==
    [cfg \in DeviceConfigs |->
        [i \in 1..LIGHT_PROFILE_LENGTH |-> IF i = 1 THEN cfg ELSE ((i - 1) % 255) + 1]]

DeviceProfile(cfg) == DeviceProfiles[cfg]

\* An inbound profile-chunk acknowledgment: byte 1 = 5, byte 2 = profile
\* kind, bytes 3-4 = start offset, byte 5 = chunk length, payload from byte 6.
ProfileAckPacket(kind, start, len, stored) ==
    Packet64(<<15, READ_PROFILE_ACK, kind, start \div 256, start % 256, len>>
             \o SubSeq(stored, start + 1, Min(start + Min(len, PACKET_SIZE - 6),
                                              Len(stored))))

\* An inbound firmware-version acknowledgment: byte 1 = 10, the firmware
\* version at bytes 4..9 and the dongle version at bytes 12..17.
FirmwareAckPacket ==
    Packet64(<<15, READ_FIRMWARE_VERSION_ACK, 0, 0, 49, 46, 50, 46, 51, 0, 0, 0,
               57, 46, 57, 46, 57>>)

\* An unsolicited state report: byte 0 = 18; byte 1 is set by the caller.
StateReportPacket(b1) == Packet64(<<GAMEPAD_STATE_REPORT_ID, b1>>)

\* A packet that is neither a state report nor a known acknowledgment.
OtherPacket == Packet64(<<15, 7>>)

\* What a protocol-following device answers to a written command packet:
\* nothing to a heartbeat, the firmware ack to [15, 9], the requested chunk
\* of the stored profile to a read-profile command.
DeviceAnswer(data, stored) ==
    IF data = READ_FW_VERSION_COMMAND THEN <<FirmwareAckPacket>>
    ELSE IF Len(data) >= 6 /\ Byte(data, 0) = 15 /\ Byte(data, 1) = 4
    THEN <<ProfileAckPacket(Byte(data, 2), 256 * Byte(data, 3) + Byte(data, 4),
                            Byte(data, 5), stored)>>
    ELSE <<>>

RECURSIVE DeviceAnswers(_, _)
DeviceAnswers(datas, stored) ==
    IF datas = <<>> THEN <<>>
    ELSE DeviceAnswer(Head(datas), stored) \o DeviceAnswers(Tail(datas), stored)

\* -------------------------------------------------------------------- state

VARIABLES
    request_queue,  \* RequestQueue.queue: the Requests pushed and not yet popped
    write_queue,    \* the worker's VecDeque<RequestPacket>
    color_buf,      \* profile_parser.color_buf
    current_req,    \* the worker's current_req (None or a Request)
    pc,             \* the worker's position: "dispatch", "write", "read" in
                    \* the loop; "stopped" after a break; "panicked"
    now,            \* Instant::now(), in ms since the timestamp of the head
                    \* packet (Instants are only compared by difference)
    wrote,          \* the packets device.write accepted in the write step of
                    \* this loop cycle (empty again once the read has returned)
    buf,            \* &read_buf[..len] of the read that ended the last loop
                    \* cycle (empty once the next cycle has started)
    status,         \* per caller: "idle", "waiting" (receiver.await pending),
                    \* "resolved" (a value was sent), "cancelled" (the sender
                    \* was dropped: receiver.await yields Canceled)
    result,         \* per caller: the value its receiver resolved with
    device_out,     \* answers the device has produced and the worker not read
    device_cfg,     \* config index byte of the profile the device stores
    issued,         \* Requests enqueued so far
    unsolicited,    \* packets received so far that answered no command
    built_for,      \* the arguments of the last call of a command builder
    built,          \* what that call returned
    chunk,          \* the data of the last direct call of ProfileParser::accept
    accepted,       \* how that call ended
    fed             \* the number k of such calls so far, when they were the
                    \* chunks 1..k of the read command in order; -1 otherwise

vars == <<request_queue, write_queue, color_buf, current_req, pc, now, wrote, buf,
          status, result, device_out, device_cfg, issued, unsolicited,
          built_for, built, chunk, accepted, fed>>

\* The variables of the direct calls; the worker leaves them alone.
call_vars == <<built_for, built, chunk, accepted, fed>>

\* No call yet.
NoCall == [fn |-> "none"]

\* Request values; result_sender is the caller holding the receiver.
Heartbeat == [type |-> "Heartbeat"]

GetColorProfile(c) == [type |-> "GetColorProfile", result_sender |-> c]

GetFirmwareVersion(c) == [type |-> "GetFirmwareVersion", result_sender |-> c]

NoResult == [kind |-> "none"]

Init ==
    /\ request_queue = <<>>
    /\ write_queue = <<>>
    /\ color_buf = ProfileParser_new
    /\ current_req = None
    /\ pc = "dispatch"
    /\ now = 0
    /\ wrote = <<>>
    /\ buf = <<>>
    /\ status = [c \in Callers |-> "idle"]
    /\ result = [c \in Callers |-> NoResult]
    /\ device_out = <<>>
    /\ device_cfg \in DeviceConfigs
    /\ issued = 0
    /\ unsolicited = 0
    /\ built_for = NoCall
    /\ built = <<>>
    /\ chunk = <<>>
    /\ accepted = "new"
    /\ fed = 0

\* ------------------------------------------------- callers (Controller)

\* RequestQueue::push
RequestQueue_push(queue, req) == Append(queue, req)

\* RequestQueue::pop taking the newest Request (pop_back for pop_front).
RequestQueue_pop_Back(queue) ==
    IF queue = <<>> THEN [req |-> None, queue |-> queue]
    ELSE [req |-> queue[Len(queue)], queue |-> SubSeq(queue, 1, Len(queue) - 1)]

\* RequestQueue::pop: the popped Request (None when empty) and the rest.
RequestQueue_pop(queue) ==
    IF queue = <<>> THEN [req |-> None, queue |-> queue]
    ELSE [req |-> Head(queue), queue |-> Tail(queue)]

\* push and pop take the queue's mutex, and the worker touches the queue in
\* Dispatch only: a push commutes with the worker's write and read steps, so
\* it is placed between two loop cycles (or after the worker has ended).
BetweenCycles == pc \in {"dispatch", "stopped", "panicked"}

\* Controller::request: make the channel, push the Request, await the receiver.
Controller_request(c, req) ==
    /\ issued < MaxRequests
    /\ BetweenCycles
    /\ c = issued + 1
    /\ status[c] = "idle"
    /\ request_queue' = RequestQueue_push(request_queue, req)
    /\ status' = [status EXCEPT ![c] = "waiting"]
    /\ issued' = issued + 1
    /\ UNCHANGED <<write_queue, color_buf, current_req, pc, now, wrote, buf,
                   result, device_out, device_cfg, unsolicited>>
    /\ UNCHANGED call_vars

get_light_color_profile(c) == Controller_request(c, GetColorProfile(c))

get_firmware_version(c) == Controller_request(c, GetFirmwareVersion(c))

\* A Heartbeat request carries no completion slot; no caller awaits it.
PushHeartbeat ==
    /\ issued < MaxRequests
    /\ BetweenCycles
    /\ request_queue' = RequestQueue_push(request_queue, Heartbeat)
    /\ issued' = issued + 1
    /\ UNCHANGED <<write_queue, color_buf, current_req, pc, now, wrote, buf,
                   status, result, device_out, device_cfg, unsolicited>>
    /\ UNCHANGED call_vars

\* ------------------------------------------------ worker: request dispatch

\* PullsRequest without its test of current_req.
PullsRequest_Unguarded(cur, queue) == queue # <<>>

\* `current_req.is_none() && let Some(req) = request_queue.pop()`
PullsRequest(cur, queue) == cur = None /\ queue # <<>>

\* `for packet_data in profile::get_read_profile_command(true)`
ReadLightProfilePackets ==
    LET cmd == get_read_profile_command(TRUE)
    IN  [k \in 1..Len(cmd) |-> RequestPacket(cmd[k], Queued, TRUE)]

\* The packets a Request adds to the write queue.
PacketsOf(req) ==
    IF req.type = "Heartbeat"
    THEN <<RequestPacket(HEARTBEAT_COMMAND, Queued, FALSE)>>
    ELSE IF req.type = "GetColorProfile"
    THEN ReadLightProfilePackets
    ELSE <<RequestPacket(READ_FW_VERSION_COMMAND, Queued, TRUE)>>

\* Head of the write queue in WaitingForAck state?
HeadWaiting(q) == q # <<>> /\ Head(q).state.tag = "WaitingForAck"

\* The clock is kept relative to the waiting head's timestamp; with no
\* waiting head no Instant is compared, and the clock is left at 0.
Clock(q, t) == IF HeadWaiting(q) THEN t ELSE 0

Dispatch ==
    /\ pc = "dispatch"
    /\ IF PullsRequest(current_req, request_queue)
       THEN LET popped == RequestQueue_pop(request_queue)
            IN  /\ request_queue' = popped.queue
                /\ write_queue' = write_queue \o PacketsOf(popped.req)
                /\ current_req' = popped.req
       ELSE UNCHANGED <<request_queue, write_queue, current_req>>
    /\ pc' = "write"
    /\ buf' = <<>>
    /\ UNCHANGED <<color_buf, now, wrote, status, result, device_out,
                   device_cfg, issued, unsolicited>>
    /\ UNCHANGED call_vars

\* ----------------------------------------- worker: write queue processing

\* AckTimedOut with `>=` for `>`.
AckTimedOut_Inclusive(t, timestamp) == t >= timestamp + ACK_TIMEOUT_MS

\* `Instant::now() > timestamp + Duration::from_millis(200)`
AckTimedOut(t, timestamp) == t > timestamp + ACK_TIMEOUT_MS

\* `timestamp: Instant::now()`. Instants are compared by difference only:
\* the clock is re-based so that the timestamp taken is instant 0.
TimestampNow == 0

\* Is the head packet written in this pass of the while loop?
HeadIsDue(packet, t) ==
    \/ packet.state.tag = "Queued"
    \/ /\ packet.state.tag = "WaitingForAck"
       /\ AckTimedOut(t, packet.state.timestamp)

\* StaysAfterWrite with the test of needs_ack left out: every packet is
\* popped once written.
StaysAfterWrite_Never(packet) == FALSE

\* After a successful write: a packet that needs an ack stays at the head
\* as WaitingForAck{now} and ends the loop.
StaysAfterWrite(packet) == packet.needs_ack

\* WriteLoop without the `break` after a packet that needs an ack: the
\* packets behind it are written in the same pass.
RECURSIVE WriteLoop_NoBreak(_, _, _, _)
WriteLoop_NoBreak(q, t, w, failAt) ==
    IF q = <<>> THEN [write_queue |-> q, wrote |-> w, err |-> FALSE]
    ELSE LET packet == Head(q)
         IN  IF ~HeadIsDue(packet, t)
             THEN [write_queue |-> q, wrote |-> w, err |-> FALSE]
             ELSE IF Len(w) + 1 = failAt
             THEN [write_queue |-> q, wrote |-> w, err |-> TRUE]
             ELSE LET r == WriteLoop_NoBreak(Tail(q), t, Append(w, packet.data), failAt)
                  IN  IF StaysAfterWrite(packet)
                      THEN [write_queue |->
                                <<[packet EXCEPT !.state = WaitingForAck(TimestampNow)]>>
                                    \o r.write_queue,
                            wrote |-> r.wrote,
                            err |-> r.err]
                      ELSE r

\* The `while let Some(packet) = write_queue.front_mut()` loop at time t.
\* failAt = k makes the k-th device.write of the loop fail (0: none fails);
\* w is the list of packets written so far.
RECURSIVE WriteLoop(_, _, _, _)
WriteLoop(q, t, w, failAt) ==
    IF q = <<>> THEN [write_queue |-> q, wrote |-> w, err |-> FALSE]
    ELSE LET packet == Head(q)
         IN  IF ~HeadIsDue(packet, t)
             THEN [write_queue |-> q, wrote |-> w, err |-> FALSE]
             ELSE IF Len(w) + 1 = failAt
             THEN [write_queue |-> q, wrote |-> w, err |-> TRUE]
             ELSE IF StaysAfterWrite(packet)
             THEN [write_queue |->
                       <<[packet EXCEPT !.state = WaitingForAck(TimestampNow)]>> \o Tail(q),
                   wrote |-> Append(w, packet.data),
                   err |-> FALSE]
             ELSE WriteLoop(Tail(q), t, Append(w, packet.data), failAt)

\* DropRequest with the sender leaked instead of dropped: the receiver is
\* never cancelled.
DropRequest_Leaked(st, req) == st

\* The Request the worker thread drops when it ends: the sender of its
\* completion slot is dropped with it, which cancels the receiver.
DropRequest(st, req) ==
    IF req.type \in {"GetColorProfile", "GetFirmwareVersion"}
    THEN [st EXCEPT ![req.result_sender] = "cancelled"]
    ELSE st

\* The value of a local of the worker thread once the thread has ended.
Dropped == <<>>

\* WorkerEnds with `continue` for `break`: the loop goes on with its state.
WorkerEnds_Continues(how, st, cur) ==
    /\ pc' = "dispatch"
    /\ current_req' = cur
    /\ status' = st
    /\ UNCHANGED <<write_queue, color_buf, device_out, now>>

\* The worker thread ends (break, or a panic unwinding) with current_req =
\* cur: its locals are dropped (the write queue, the parser, current_req and
\* the device handle), and with current_req the sender it holds.
WorkerEnds(how, st, cur) ==
    /\ pc' = how
    /\ current_req' = None
    /\ status' = DropRequest(st, cur)
    /\ write_queue' = Dropped
    /\ color_buf' = Dropped
    /\ device_out' = Dropped
    /\ now' = 0

WriteQueue ==
    /\ pc = "write"
    /\ \E failAt \in 0..Len(write_queue) :
        LET r == WriteLoop(write_queue, now, <<>>, failAt)
        IN  /\ failAt # 0 => r.err
            /\ wrote' = r.wrote
            /\ IF r.err
               THEN WorkerEnds("stopped", status, current_req)
               ELSE /\ pc' = "read"
                    /\ write_queue' = r.write_queue
                    /\ device_out' = device_out \o
                           DeviceAnswers(r.wrote, DeviceProfile(device_cfg))
                    /\ now' = IF r.wrote # <<>> THEN TimestampNow
                                               ELSE Clock(r.write_queue, now)
                    /\ UNCHANGED <<current_req, status, color_buf>>
    /\ UNCHANGED <<request_queue, buf, result, device_cfg, issued, unsolicited>>
    /\ UNCHANGED call_vars

\* ------------------------------------------------ worker: inbound packets

\* state::parse_gamepad_state reads buf[53] and buf[35..53]; it has no
\* effect on the worker's state and panics on a shorter buffer.
parse_gamepad_state_panics(packet) == Len(packet) < 54

\* String::from_utf8_lossy on bytes: ASCII kept, other bytes replaced by
\* U+FFFD.
from_utf8_lossy(bytes) == [i \in 1..Len(bytes) |-> IF bytes[i] < 128 THEN bytes[i] ELSE 65533]

FirmwareVersion(packet) ==
    [kind           |-> "FirmwareVersion",
     fw_version     |-> from_utf8_lossy(Slice(packet, 4, 9)),
     dongle_version |-> from_utf8_lossy(Slice(packet, 12, 17))]

ProfileLight(profile) == [kind |-> "Profile::Light", light |-> profile]

\* `pop_front_if(|p| matches!(p.state, WaitingForAck { .. }))`: the queue
\* without its head when the head is WaitingForAck.
PopsHead(q) == HeadWaiting(q)

\* TakeCurrent reading current_req where the code takes it (as_ref for take).
TakeCurrent_Kept(cur) == [taken |-> cur, left |-> cur]

\* `current_req.take()` of the READ_FIRMWARE_VERSION_ACK arm: the value
\* taken out, and what is left in current_req.
TakeCurrent(cur) == [taken |-> cur, left |-> None]

\* What handling of a non-empty inbound packet does to the worker's state:
\*   how         "continue" (next loop cycle) or "panic"
\*   sent        <<>> or <<[to |-> caller, value |-> v]>>: result_sender.send
\*   dropped     a Request dropped without its sender being used, or None
InboundStep(how, q, cur, cbuf, sent, dropped) ==
    [how |-> how, write_queue |-> q, current_req |-> cur, color_buf |-> cbuf,
     sent |-> sent, dropped |-> dropped]

HandleProfileAck(packet, q, cur, cbuf) ==
    IF cur.type # "GetColorProfile"
    THEN InboundStep("continue", q, cur, cbuf, <<>>, None)
    ELSE LET a == ProfileParser_accept(cbuf, packet)
         IN  IF a.outcome = "panic"
             THEN InboundStep("panic", q, cur, a.color_buf, <<>>, None)
             ELSE IF a.outcome = "err"
             THEN InboundStep("continue", q, cur, a.color_buf, <<>>, None)
             ELSE IF a.outcome = "none"
             THEN InboundStep("continue", q, cur, a.color_buf, <<>>, None)
             ELSE InboundStep("continue", q, None, a.color_buf,
                              <<[to |-> cur.result_sender,
                                 value |-> ProfileLight(a.profile)]>>, None)

HandleFirmwareAck(packet, q, cur, cbuf) ==
    LET t == TakeCurrent(cur)
    IN  IF t.taken.type # "GetFirmwareVersion"
        THEN InboundStep("continue", q, t.left, cbuf, <<>>, t.taken)
        ELSE IF Len(packet) < 17
        THEN InboundStep("panic", q, t.left, cbuf, <<>>, t.taken)
        ELSE InboundStep("continue", q, t.left, cbuf,
                         <<[to |-> t.taken.result_sender,
                            value |-> FirmwareVersion(packet)]>>, None)

\* HandleInbound that ignores a packet that finds no waiting head, where the
\* code panics.
HandleInbound_Lenient(packet, q, cur, cbuf) ==
    IF Byte(packet, 0) = GAMEPAD_STATE_REPORT_ID
    THEN InboundStep(IF parse_gamepad_state_panics(packet) THEN "panic" ELSE "continue",
                     q, cur, cbuf, <<>>, None)
    ELSE IF ~PopsHead(q)
    THEN InboundStep("continue", q, cur, cbuf, <<>>, None)
    ELSE IF Len(packet) < 2
    THEN InboundStep("panic", Tail(q), cur, cbuf, <<>>, None)
    ELSE IF Byte(packet, 1) = READ_PROFILE_ACK
    THEN HandleProfileAck(packet, Tail(q), cur, cbuf)
    ELSE IF Byte(packet, 1) = READ_FIRMWARE_VERSION_ACK
    THEN HandleFirmwareAck(packet, Tail(q), cur, cbuf)
    ELSE InboundStep("continue", Tail(q), cur, cbuf, <<>>, None)

\* HandleInbound without the test of the report id: a state report is
\* handled like any other packet.
HandleInbound_NoReportTest(packet, q, cur, cbuf) ==
    IF ~PopsHead(q)
    THEN InboundStep("panic", q, cur, cbuf, <<>>, None)
    ELSE IF Len(packet) < 2
    THEN InboundStep("panic", Tail(q), cur, cbuf, <<>>, None)
    ELSE IF Byte(packet, 1) = READ_PROFILE_ACK
    THEN HandleProfileAck(packet, Tail(q), cur, cbuf)
    ELSE IF Byte(packet, 1) = READ_FIRMWARE_VERSION_ACK
    THEN HandleFirmwareAck(packet, Tail(q), cur, cbuf)
    ELSE InboundStep("continue", Tail(q), cur, cbuf, <<>>, None)

\* The body of the loop after a non-empty read of buf.
HandleInbound(packet, q, cur, cbuf) ==
    IF Byte(packet, 0) = GAMEPAD_STATE_REPORT_ID
    THEN InboundStep(IF parse_gamepad_state_panics(packet) THEN "panic" ELSE "continue",
                     q, cur, cbuf, <<>>, None)
    ELSE IF ~PopsHead(q)
    THEN InboundStep("panic", q, cur, cbuf, <<>>, None)
    ELSE IF Len(packet) < 2
    THEN InboundStep("panic", Tail(q), cur, cbuf, <<>>, None)
    ELSE IF Byte(packet, 1) = READ_PROFILE_ACK
    THEN HandleProfileAck(packet, Tail(q), cur, cbuf)
    ELSE IF Byte(packet, 1) = READ_FIRMWARE_VERSION_ACK
    THEN HandleFirmwareAck(packet, Tail(q), cur, cbuf)
    ELSE InboundStep("continue", Tail(q), cur, cbuf, <<>>, None)

\* result_sender.send(value): the caller's receiver resolves with the value.
Send(st, sent) ==
    IF sent = <<>> THEN st ELSE [st EXCEPT ![sent[1].to] = "resolved"]

Store(res, sent) ==
    IF sent = <<>> THEN res ELSE [res EXCEPT ![sent[1].to] = sent[1].value]

\* A non-empty read of packet, with `rest` left in the device, and the rest
\* of the loop cycle.
Receive(packet, rest) ==
    LET r == HandleInbound(packet, write_queue, current_req, color_buf)
        st == DropRequest(Send(status, r.sent), r.dropped)
    IN  /\ buf' = packet
        /\ result' = Store(result, r.sent)
        /\ IF r.how = "panic"
           THEN WorkerEnds("panicked", st, r.current_req)
           ELSE /\ pc' = "dispatch"
                /\ write_queue' = r.write_queue
                /\ color_buf' = r.color_buf
                /\ current_req' = r.current_req
                /\ status' = st
                /\ device_out' = rest
                /\ now' = Clock(r.write_queue, now)
        /\ wrote' = <<>>
        /\ UNCHANGED <<request_queue, device_cfg, issued>>
        /\ UNCHANGED call_vars

\* device.read_timeout returns Err: the loop breaks.
ReadError ==
    /\ pc = "read"
    /\ WorkerEnds("stopped", status, current_req)
    /\ wrote' = <<>>
    /\ buf' = <<>>
    /\ UNCHANGED <<request_queue, result, device_cfg, issued, unsolicited>>
    /\ UNCHANGED call_vars

\* device.read_timeout returns Ok(0): `continue`. The device delivers an
\* answer at the latest when it holds MaxPending of them.
ReadEmpty ==
    /\ pc = "read"
    /\ Len(device_out) < MaxPending
    /\ pc' = "dispatch"
    /\ wrote' = <<>>
    /\ buf' = <<>>
    /\ UNCHANGED <<request_queue, write_queue, color_buf, current_req, now,
                   status, result, device_out, device_cfg, issued, unsolicited>>
    /\ UNCHANGED call_vars

\* Time passes while the worker is in device.read_timeout. The clock is read
\* in one place, the timeout test of a waiting head, which tells only whether
\* more than 200 ms have passed since its timestamp: the clock moves to the
\* last instant that is within the timeout, or to the first one past it.
Tick ==
    /\ pc = "read"
    /\ HeadWaiting(write_queue)
    /\ \E t \in {Head(write_queue).state.timestamp + ACK_TIMEOUT_MS,
                 Head(write_queue).state.timestamp + ACK_TIMEOUT_MS + 1} :
          /\ t > now
          /\ now' = t
    /\ UNCHANGED <<request_queue, write_queue, color_buf, current_req, pc, wrote,
                   buf, status, result, device_out, device_cfg, issued, unsolicited>>
    /\ UNCHANGED call_vars

\* device.read_timeout returns the oldest answer of the device.
ReadAnswer ==
    /\ pc = "read"
    /\ device_out # <<>>
    /\ Receive(Head(device_out), Tail(device_out))
    /\ UNCHANGED unsolicited

\* The unsolicited state reports of the device; byte 1 is chosen among the
\* acknowledgment codes.
StateReports ==
    {StateReportPacket(READ_PROFILE_ACK),
     StateReportPacket(READ_FIRMWARE_VERSION_ACK)}

\* device.read_timeout returns a state report (like an empty read, while
\* the device holds fewer than MaxPending answers).
ReadStateReport ==
    /\ pc = "read"
    /\ Len(device_out) < MaxPending
    /\ \E packet \in StateReports : Receive(packet, device_out)
    /\ UNCHANGED unsolicited

\* Other packets a device may send that answer no command written to it: an
\* acknowledgment of the other kind, a chunk that completes the profile out
\* of turn, a chunk that overflows it, a chunk of an unknown profile kind, a
\* packet with an unknown code.
UnsolicitedPackets ==
    [cfg \in DeviceConfigs |->
        {FirmwareAckPacket,
         ProfileAckPacket(LIGHT_PROFILE_NUMBER, 580, 55, DeviceProfile(cfg)),
         ProfileAckPacket(LIGHT_PROFILE_NUMBER, 580, 58, DeviceProfile(cfg)),
         ProfileAckPacket(LIGHT_PROFILE_NUMBER + 1, 0, 58, DeviceProfile(cfg)),
         OtherPacket}]

\* device.read_timeout returns a packet that answers no written command.
ReadUnsolicited ==
    /\ pc = "read"
    /\ unsolicited < MaxUnsolicited
    /\ \E packet \in UnsolicitedPackets[device_cfg] : Receive(packet, device_out)
    /\ unsolicited' = unsolicited + 1

\* ------------------------------------------------------------ specification

Request ==
    \E c \in Callers : get_light_color_profile(c) \/ get_firmware_version(c)

\* The worker with a device that follows the protocol: it answers each
\* command written to it, in order, possibly late; the transport may fail.
NextDevice ==
    \/ Request
    \/ PushHeartbeat
    \/ Dispatch
    \/ WriteQueue
    \/ ReadEmpty
    \/ ReadStateReport
    \/ Tick
    \/ ReadAnswer
    \/ ReadError

SpecDevice == Init /\ [][NextDevice]_vars

\* The worker with any device: inbound packets in any order.
Next ==
    \/ NextDevice
    \/ ReadUnsolicited

Spec == Init /\ [][Next]_vars

\* ------------------------------------------------------------------ claims

\* The worker is in its loop (it has neither stopped nor panicked).
Running == pc \in {"dispatch", "write", "read"}

\* A step of the worker that is its dispatch step / its write step, and
\* after which the worker is still running.
DispatchStep == pc = "dispatch" /\ pc' = "write"

WriteStep == pc = "write" /\ pc' = "read"

\* The caller awaiting the completion slot of req, as a set.
SenderOf(req) ==
    IF req.type \in {"GetColorProfile", "GetFirmwareVersion"}
    THEN {req.result_sender} ELSE {}

\* C1. Single-flight: a step takes a Request off the request queue only when
\* current_req is None, and it is then the head of the queue that becomes
\* the current Request; while a Request is current the queue only grows.
C1_SingleFlight ==
    [][/\ (current_req # None /\ request_queue # <<>>) =>
            /\ Len(request_queue') >= Len(request_queue)
            /\ SubSeq(request_queue', 1, Len(request_queue)) = request_queue
       /\ Len(request_queue') < Len(request_queue) =>
            /\ current_req = None
            /\ request_queue' = Tail(request_queue)
            /\ current_req' = Head(request_queue)]_vars

\* C1 witness: a dispatch step has just run while a GetColorProfile was
\* current (its head packet waits for its ack) and left a Request queued.
C1_Witness ==
    /\ pc = "write"
    /\ current_req.type = "GetColorProfile"
    /\ HeadWaiting(write_queue)
    /\ request_queue # <<>>

\* Any return of device.read_timeout after which the worker is still running.
ReadStep == pc = "read" /\ pc' = "dispatch"

\* The number of packets a step takes off the head of the write queue.
Removed == Len(write_queue) - Len(write_queue')

\* The read-profile command packets start with 15, 4.
IsReadProfileCommand(data) == Len(data) >= 2 /\ data[1] = 15 /\ data[2] = 4

\* Is the inbound packet an acknowledgment of the command `data`: code 10
\* for the firmware-version command, code 5 for a read-profile command?
AcknowledgesCommand(packet, data) ==
    /\ Len(packet) >= 2
    /\ packet[1] # GAMEPAD_STATE_REPORT_ID
    /\ IF data = READ_FW_VERSION_COMMAND THEN packet[2] = READ_FIRMWARE_VERSION_ACK
       ELSE IF IsReadProfileCommand(data) THEN packet[2] = READ_PROFILE_ACK
       ELSE FALSE

\* Is the inbound packet anything but a state report?
NotStateReport(packet, data) == packet[1] # GAMEPAD_STATE_REPORT_ID

\* The write step writes a prefix of the queue and removes of it exactly the
\* packets with needs_ack = false, each in the step that writes it; the
\* packets that stay keep their order.
C2_WriteRemoval ==
    WriteStep =>
        /\ Removed >= 0
        /\ Removed <= Len(wrote')
        /\ \A i \in 1..Len(wrote') :
              /\ wrote'[i] = write_queue[i].data
              /\ (i <= Removed) <=> ~write_queue[i].needs_ack
        /\ \A j \in 1..Len(write_queue') :
              write_queue'[j].data = write_queue[j + Removed].data

\* No other step than the write step and a read removes a packet.
C2_NoOtherRemoval ==
    /\ DispatchStep =>
          /\ Removed <= 0
          /\ SubSeq(write_queue', 1, Len(write_queue)) = write_queue
    /\ (Running' /\ pc' = pc) => write_queue' = write_queue

\* A read after which the worker runs on removes the head exactly when the
\* packet read is accepted by Accepts(packet, data of the head) and the head
\* is a needs_ack packet waiting for its acknowledgment; it removes nothing
\* otherwise.
C2_ReadRemoval(Accepts(_, _)) ==
    ReadStep =>
        IF /\ buf' # <<>>
           /\ HeadWaiting(write_queue)
           /\ Accepts(buf', Head(write_queue).data)
        THEN /\ Head(write_queue).needs_ack
             /\ write_queue' = Tail(write_queue)
        ELSE write_queue' = write_queue

\* C2 as stated. A packet leaves the head of the write queue in two ways
\* only: a needs_ack packet when an acknowledgment for it (code 10 for the
\* firmware-version command, code 5 for a read-profile command) is read,
\* never in the write step; a packet without needs_ack in the write step that
\* writes it. An inbound packet that is no acknowledgment of the waiting
\* packet removes nothing.
C2_Original ==
    [][/\ C2_WriteRemoval
       /\ C2_NoOtherRemoval
       /\ C2_ReadRemoval(AcknowledgesCommand)]_vars

\* C2 as amended. A packet leaves the head of the write queue in two ways
\* only: a needs_ack packet when, while it waits for its acknowledgment, any
\* inbound packet that is not a state report is read, whatever its code,
\* never in the write step; a packet without needs_ack in the write step that
\* writes it.
C2_HeadRemoval ==
    [][/\ C2_WriteRemoval
       /\ C2_NoOtherRemoval
       /\ C2_ReadRemoval(NotStateReport)]_vars

\* C2 witness: a packet with an unknown code has been read while the
\* firmware-version command waited for its acknowledgment, and has removed it.
C2_Witness ==
    /\ pc = "dispatch"
    /\ buf = OtherPacket
    /\ current_req.type = "GetFirmwareVersion"
    /\ write_queue = <<>>

\* C3. Timeout and retry in the write step: with an empty queue, or a head
\* waiting for its ack for no more than 200 ms, nothing is written and the
\* queue is unchanged; a head waiting for more than 200 ms is written once
\* again and its timestamp is refreshed; a Queued head that needs an ack is
\* written once and becomes WaitingForAck(now). A packet becomes
\* WaitingForAck only as the last packet written by a write step, only the
\* head is ever WaitingForAck and it stays the head while it is, and no step
\* but the write step writes.
C3_TimeoutRetry ==
    [][/\ pc = "write" =>
            IF write_queue = <<>>
            THEN wrote' = <<>> /\ pc' = "read" /\ write_queue' = write_queue
            ELSE LET head == Head(write_queue)
                     rewritten == <<[head EXCEPT !.state = WaitingForAck(now')]>>
                                      \o Tail(write_queue)
                 IN  IF head.state.tag = "WaitingForAck"
                     THEN IF now > head.state.timestamp + 200
                          THEN pc' = "read" =>
                                  /\ wrote' = <<head.data>>
                                  /\ write_queue' = rewritten
                          ELSE /\ wrote' = <<>>
                               /\ pc' = "read"
                               /\ write_queue' = write_queue
                     ELSE (pc' = "read" /\ head.needs_ack) =>
                             /\ wrote' = <<head.data>>
                             /\ write_queue' = rewritten
       /\ pc # "write" => wrote' \in {<<>>, wrote}
       /\ \A j \in 2..Len(write_queue') : write_queue'[j].state = Queued
       /\ (HeadWaiting(write_queue) /\ HeadWaiting(write_queue')) =>
                /\ Removed <= 0
                /\ Head(write_queue').data = Head(write_queue).data
       /\ (HeadWaiting(write_queue') /\ ~HeadWaiting(write_queue)) =>
                /\ pc = "write"
                /\ wrote' # <<>>
                /\ wrote'[Len(wrote')] = Head(write_queue').data
                /\ Head(write_queue').state.timestamp = now']_vars

\* C3 witness: the firmware-version command has been written a second time
\* (the device holds two answers to it) after its ack was late by more than
\* 200 ms.
C3_Witness ==
    /\ pc = "read"
    /\ wrote = <<READ_FW_VERSION_COMMAND>>
    /\ device_out = <<FirmwareAckPacket, FirmwareAckPacket>>
    /\ HeadWaiting(write_queue)

\* A read returns a packet that is not a state report while the head of the
\* write queue waits for its acknowledgment: the packet is taken as an
\* acknowledgment and dispatched on its code.
AckRead == pc = "read" /\ buf' # <<>> /\ buf'[1] # GAMEPAD_STATE_REPORT_ID
               /\ HeadWaiting(write_queue)

\* The code of the acknowledgment does not match the type of the Request.
AckMismatch(packet, req) ==
    \/ packet[2] = READ_FIRMWARE_VERSION_ACK /\ req.type = "GetColorProfile"
    \/ packet[2] = READ_PROFILE_ACK /\ req.type = "GetFirmwareVersion"

\* C4 as stated. When an acknowledgment is read whose code (5 or 10) does not
\* match the type of the current Request, the worker keeps running and the
\* current Request stays current, its completion slot neither fulfilled nor
\* dropped; in both directions.
C4_MismatchIgnored ==
    [][(AckRead /\ AckMismatch(buf', current_req)) =>
            /\ pc' = "dispatch"
            /\ current_req' = current_req
            /\ \A c \in SenderOf(current_req) :
                  status'[c] = "waiting" /\ result'[c] = NoResult]_vars

\* C5. A dispatched GetFirmwareVersion adds exactly one packet, [15, 9], to
\* the write queue; when an acknowledgment with code 10 is read while that
\* packet waits for its ack, the caller's slot is resolved with the two
\* version strings of the packet, and the worker is left with no current
\* Request and an empty write queue; with no current Request the next
\* dispatch step makes the head of the request queue, if any, current.
C5_FirmwareVersion ==
    [][/\ (DispatchStep /\ current_req' # current_req
                        /\ current_req'.type = "GetFirmwareVersion") =>
              write_queue' = Append(write_queue, RequestPacket(<<15, 9>>, Queued, TRUE))
       /\ (/\ AckRead
           /\ buf'[2] = 10
           /\ current_req.type = "GetFirmwareVersion"
           /\ Head(write_queue).data = <<15, 9>>) =>
              /\ pc' = "dispatch"
              /\ status'[current_req.result_sender] = "resolved"
              /\ result'[current_req.result_sender] =
                    [kind           |-> "FirmwareVersion",
                     fw_version     |-> from_utf8_lossy(SubSeq(buf', 5, 9)),
                     dongle_version |-> from_utf8_lossy(SubSeq(buf', 13, 17))]
              /\ current_req' = None
              /\ write_queue' = <<>>
       /\ (DispatchStep /\ current_req = None /\ request_queue # <<>>) =>
              /\ current_req' = Head(request_queue)
              /\ request_queue' = Tail(request_queue)]_vars

\* C5 witness: the caller of a GetFirmwareVersion has been resolved with the
\* versions "1.2.3" and "9.9.9" of the device's ack, and the worker is free
\* with another Request queued.
C5_Witness ==
    /\ pc = "dispatch"
    /\ buf = FirmwareAckPacket
    /\ status[1] = "resolved"
    /\ result[1] = [kind |-> "FirmwareVersion",
                    fw_version |-> <<49, 46, 50, 46, 51>>,
                    dongle_version |-> <<57, 46, 57, 46, 57>>]
    /\ current_req = None
    /\ write_queue = <<>>
    /\ request_queue # <<>>

\* The k-th packet (from 1) of a light-profile read: offset 58 * (k - 1)
\* in bytes 3-4, length 58, and 55 for the 11th.
C6_Packet(k) ==
    <<15, 4, 32, (58 * (k - 1)) \div 256, (58 * (k - 1)) % 256,
      IF k = 11 THEN 55 ELSE 58>> \o [i \in 1..58 |-> 0]

\* C6 as stated. A dispatched GetColorProfile adds 11 packets to the write
\* queue, in offset order 0, 58, ..., 580, the last of length 55; a packet is
\* written only as the head of the queue, hence after the ones before it were
\* acknowledged; when the acknowledgment of the 11th chunk is read while the
\* 11th packet is the one waiting, the caller's slot is resolved with the
\* decoded LightProfile and the worker is left with no current Request and an
\* empty write queue; the slot is resolved by no other step.
C6_ColorProfile ==
    [][/\ (DispatchStep /\ current_req' # current_req
                        /\ current_req'.type = "GetColorProfile") =>
              write_queue' = write_queue \o
                  [k \in 1..11 |-> RequestPacket(C6_Packet(k), Queued, TRUE)]
       /\ (pc = "write" /\ current_req.type = "GetColorProfile") =>
              \A i \in 1..Len(wrote') : wrote'[i] = write_queue[i].data
       /\ (/\ AckRead
           /\ current_req.type = "GetColorProfile"
           /\ write_queue = <<RequestPacket(C6_Packet(11), WaitingForAck(0), TRUE)>>
           /\ SubSeq(buf', 1, 6) = <<15, 5, 32, 2, 68, 55>>) =>
              /\ pc' = "dispatch"
              /\ status'[current_req.result_sender] = "resolved"
              /\ result'[current_req.result_sender].kind = "Profile::Light"
              /\ current_req' = None
              /\ write_queue' = <<>>
       /\ \A c \in Callers :
              (/\ current_req = GetColorProfile(c)
               /\ status[c] = "waiting"
               /\ status'[c] = "resolved") =>
                  /\ AckRead
                  /\ SubSeq(buf', 1, 6) = <<15, 5, 32, 2, 68, 55>>]_vars

\* C7 as stated. When the worker loop ends on a transport error, every caller
\* awaiting a completion slot stays awaiting it, and once the worker has
\* ended no slot is fulfilled and no awaiting caller is resumed.
C7_Original ==
    [][/\ (Running /\ pc' = "stopped") =>
              /\ result' = result
              /\ \A c \in Callers : status[c] = "waiting" => status'[c] = "waiting"
       /\ pc = "stopped" =>
              /\ pc' = "stopped"
              /\ result' = result
              /\ \A c \in Callers : status[c] = "waiting" => status'[c] = "waiting"]_vars

\* C7 as amended. When the worker loop ends on a transport error, the caller
\* of the worker's current Request is resumed with a cancellation (the
\* sender is dropped with the worker's state), and every other awaiting
\* caller has its Request in the request queue and stays blocked; once the
\* worker has ended the request queue is never popped, no slot is fulfilled
\* and no caller is resumed.
C7_FatalIo ==
    [][/\ (Running /\ pc' = "stopped") =>
              /\ result' = result
              /\ request_queue' = request_queue
              /\ \A c \in Callers :
                    status[c] = "waiting" =>
                        status'[c] = IF c \in SenderOf(current_req)
                                     THEN "cancelled" ELSE "waiting"
       /\ pc = "stopped" =>
              /\ pc' = "stopped"
              /\ result' = result
              /\ SubSeq(request_queue', 1, Len(request_queue)) = request_queue
              /\ \A c \in Callers : status[c] # "idle" => status'[c] = status[c]
              /\ \A c \in Callers :
                    status[c] = "waiting" =>
                        \E i \in 1..Len(request_queue) :
                            c \in SenderOf(request_queue[i])]_vars

\* C7 witness: the worker has ended on a transport error (no packet but
\* answers was ever read) with the Request of caller 1 current and that of
\* caller 2 queued: caller 1 is cancelled, caller 2 awaits.
C7_Witness ==
    /\ pc = "stopped"
    /\ unsolicited = 0
    /\ status[1] = "cancelled"
    /\ status[2] = "waiting"
    /\ Len(request_queue) = 1
    /\ SenderOf(request_queue[1]) = {2}

\* C8 as stated. When the chunk read completes the buffer and the decode
\* fails, the caller of the current GetColorProfile is resolved (with the
\* error) rather than left awaiting, and the worker keeps running.
C8_DecodeFailureSurfaced ==
    [][(/\ AckRead
        /\ buf'[2] = READ_PROFILE_ACK
        /\ current_req.type = "GetColorProfile"
        /\ ProfileParser_accept(color_buf, buf').outcome = "err") =>
            /\ pc' = "dispatch"
            /\ status'[current_req.result_sender] = "resolved"]_vars

\* C9 as stated. When a profile-chunk ack whose profile kind (byte 2) is not
\* 32 is read while GetColorProfile is current, the worker keeps running.
C9_UnknownKindRecoverable ==
    [][(/\ AckRead
        /\ buf'[2] = READ_PROFILE_ACK
        /\ buf'[3] # 32
        /\ current_req.type = "GetColorProfile") =>
            /\ pc' = "dispatch"
            /\ Running']_vars

\* C10 as stated. Whenever the worker dispatches a GetColorProfile, the
\* accumulation buffer is 635 zero bytes.
C10_FreshBuffer ==
    [][(DispatchStep /\ current_req' # current_req
                     /\ current_req'.type = "GetColorProfile") =>
            /\ color_buf = [i \in 1..635 |-> 0]
            /\ color_buf' = [i \in 1..635 |-> 0]]_vars

\* A read returns a packet that is not a state report.
PacketRead == pc = "read" /\ buf' # <<>> /\ buf'[1] # GAMEPAD_STATE_REPORT_ID

\* C11. A packet that is not a state report and is read while the head of
\* the write queue is not WaitingForAck (the queue is empty, or its head
\* Queued) ends the worker in a panic; read while the head is WaitingForAck,
\* it pops exactly the head: the rest of the queue is left as it was.
C11_ProtocolViolation ==
    [][PacketRead =>
          IF HeadWaiting(write_queue)
          THEN Running' => write_queue' = Tail(write_queue)
          ELSE pc' = "panicked"]_vars

\* C11 witness: the worker has panicked on a firmware-version ack, which
\* panics in no other way than by finding no waiting head.
C11_Witness ==
    /\ pc = "panicked"
    /\ buf = FirmwareAckPacket

\* C12. A read that returns a state report (byte 0 = 18), whatever its byte
\* 1, or that returns nothing, leaves the write queue (packets, states and
\* timestamps), the current Request, every completion slot and the
\* reassembly buffer unchanged, and the worker goes on.
C12_StateReportNoAck ==
    [][(pc = "read" /\ pc' # "stopped" /\ (buf' = <<>> \/ buf'[1] = 18)) =>
          /\ pc' \in {"read", "dispatch"}
          /\ write_queue' = write_queue
          /\ current_req' = current_req
          /\ status' = status
          /\ result' = result
          /\ color_buf' = color_buf]_vars

\* C12 witness: a state report with byte 1 = 10 has been read while the
\* firmware-version command waited for its ack, and the command still waits.
C12_Witness ==
    /\ pc = "dispatch"
    /\ buf = StateReportPacket(READ_FIRMWARE_VERSION_ACK)
    /\ current_req.type = "GetFirmwareVersion"
    /\ HeadWaiting(write_queue)
    /\ Head(write_queue).data = READ_FW_VERSION_COMMAND

\* ----------------------------------- direct calls of the command builders

\* The data lengths the write builder is called with: every length up to
\* MaxDataLen, the two profile lengths, and the lengths around the largest
\* whose offsets fit the two offset bytes.
DataLengths ==
    (0..MaxDataLen) \cup {LIGHT_PROFILE_LENGTH, PACKET_DATA_LENGTH, 65540, 65541}

StartIndexes == {0, 200}

\* The data of length n passed to the write builder.
DataOf == [n \in DataLengths |-> [i \in 1..n |-> (i % 251) + 1]]

\* A call of get_read_profile_command (one builder call in a run: the
\* builders keep no state between calls).
CallReadBuilder ==
    /\ built_for = NoCall
    /\ \E b \in BOOLEAN :
          /\ built_for' = [fn |-> "read", is_light_profile |-> b]
          /\ built' = [panic |-> FALSE, packets |-> get_read_profile_command(b)]
    /\ UNCHANGED <<request_queue, write_queue, color_buf, current_req, pc, now,
                   wrote, buf, status, result, device_out, device_cfg, issued,
                   unsolicited, chunk, accepted, fed>>

\* A call of build_write_profile_command.
CallWriteBuilder ==
    /\ built_for = NoCall
    /\ \E n \in DataLengths, start_index \in StartIndexes :
          /\ built_for' = [fn |-> "write", len |-> n, start_index |-> start_index]
          /\ built' = build_write_profile_command(DataOf[n], start_index)
    /\ UNCHANGED <<request_queue, write_queue, color_buf, current_req, pc, now,
                   wrote, buf, status, result, device_out, device_cfg, issued,
                   unsolicited, chunk, accepted, fed>>

NextBuilder ==
    \/ CallReadBuilder
    \/ CallWriteBuilder

SpecBuilder == Init /\ [][NextBuilder]_vars

\* The sum of the length bytes (byte 5) of the packets lo..hi.
RECURSIVE SumOfLengths(_, _, _)
SumOfLengths(packets, lo, hi) ==
    IF lo > hi THEN 0
    ELSE IF lo = hi THEN packets[lo][6]
    ELSE LET mid == (lo + hi) \div 2
         IN  SumOfLengths(packets, lo, mid) + SumOfLengths(packets, mid + 1, hi)

\* The packets frame a transfer of L bytes with sub-command cmd: there are
\* ceil(L / 58) of them, of 64 bytes; packet i (from 0) starts with 15, cmd,
\* 32, the offset i * 58 as (offset / 256, offset % 256) and the length
\* min(L - offset, 58); the lengths sum to L.
Framed(packets, L, cmd) ==
    /\ Len(packets) = (L + 57) \div 58
    /\ \A k \in 1..Len(packets) :
          /\ Len(packets[k]) = 64
          /\ SubSeq(packets[k], 1, 6) =
                <<15, cmd, 32, (58 * (k - 1)) \div 256, (58 * (k - 1)) % 256,
                  IF L - 58 * (k - 1) < 58 THEN L - 58 * (k - 1) ELSE 58>>
          /\ k > 1 => 256 * packets[k][4] + packets[k][5]
                          > 256 * packets[k - 1][4] + packets[k - 1][5]
    /\ packets # <<>> => packets[1][4] = 0 /\ packets[1][5] = 0
    /\ SumOfLengths(packets, 1, Len(packets)) = L

\* The read builder's result frames 635 bytes (light profile) or 680.
C13_ReadFramed ==
    built_for.fn = "read" =>
        /\ ~built.panic
        /\ Framed(built.packets, IF built_for.is_light_profile THEN 635 ELSE 680, 4)

\* C13 as stated. The read builder frames 635 and 680 bytes, and the write
\* builder started at offset 0 frames data of every length: ceil(L / 58)
\* packets, packet i with offset i * 58 and length min(remaining, 58),
\* offsets increasing from 0, lengths summing to L; no packet for L = 0.
C13_Original ==
    /\ C13_ReadFramed
    /\ (built_for.fn = "write" /\ built_for.start_index = 0) =>
          /\ ~built.panic
          /\ Framed(built.packets, built_for.len, 3)

\* C13 as amended. The same, for the write builder with data of every
\* length up to 65540; for longer data the offset of the last packet
\* exceeds 65535, its high byte does not fit a byte and the builder panics.
C13_Framing ==
    /\ C13_ReadFramed
    /\ (built_for.fn = "write" /\ built_for.start_index = 0) =>
          IF built_for.len <= 65540
          THEN /\ ~built.panic
               /\ Framed(built.packets, built_for.len, 3)
          ELSE built.panic

\* C13 witness: the write builder has framed 100 bytes from offset 0, in
\* two packets of lengths 58 and 42 at offsets 0 and 58.
C13_Witness ==
    /\ built_for = [fn |-> "write", len |-> 100, start_index |-> 0]
    /\ ~built.panic
    /\ Len(built.packets) = 2
    /\ SubSeq(built.packets[1], 1, 6) = <<15, 3, 32, 0, 0, 58>>
    /\ SubSeq(built.packets[2], 1, 6) = <<15, 3, 32, 0, 58, 42>>

\* ------------------------------------ direct calls of ProfileParser::accept

\* The acknowledgment of the k-th packet (from 1) of the read command for
\* L = 635, carrying the bytes of the profile with config index cfg.
BuilderChunk(cfg, k) ==
    DeviceAnswer(get_read_profile_command(TRUE)[k], DeviceProfile(cfg))[1]

\* The chunks ProfileParser::accept is called with: the 11 of the read
\* command; a chunk that completes the buffer out of turn, two empty ones;
\* chunks that overflow the buffer by 3, by 1 and by far; a chunk longer
\* than a packet; a chunk of another profile kind.
Chunks ==
    [cfg \in DeviceConfigs |->
        {BuilderChunk(cfg, k) : k \in 1..11} \cup
        {ProfileAckPacket(LIGHT_PROFILE_NUMBER, 600, 35, DeviceProfile(cfg)),
         ProfileAckPacket(LIGHT_PROFILE_NUMBER, 0, 0, DeviceProfile(cfg)),
         ProfileAckPacket(LIGHT_PROFILE_NUMBER, 635, 0, DeviceProfile(cfg)),
         ProfileAckPacket(LIGHT_PROFILE_NUMBER, 580, 58, DeviceProfile(cfg)),
         ProfileAckPacket(LIGHT_PROFILE_NUMBER, 600, 36, DeviceProfile(cfg)),
         ProfileAckPacket(LIGHT_PROFILE_NUMBER, 635, 1, DeviceProfile(cfg)),
         ProfileAckPacket(LIGHT_PROFILE_NUMBER, 65535, 255, DeviceProfile(cfg)),
         ProfileAckPacket(LIGHT_PROFILE_NUMBER, 0, 255, DeviceProfile(cfg)),
         ProfileAckPacket(LIGHT_PROFILE_NUMBER + 1, 0, 58, DeviceProfile(cfg))}]

\* A call of ProfileParser::accept on a parser created by ProfileParser::new;
\* a call that panicked is the last one.
CallAccept ==
    /\ accepted # "panic"
    /\ \E data \in Chunks[device_cfg] :
          LET a == ProfileParser_accept(color_buf, data)
          IN  /\ chunk' = data
              /\ accepted' = a.outcome
              /\ color_buf' = a.color_buf
              /\ fed' = IF fed >= 0 /\ fed < 11 /\ data = BuilderChunk(device_cfg, fed + 1)
                        THEN fed + 1 ELSE -1
    /\ UNCHANGED <<request_queue, write_queue, current_req, pc, now, wrote, buf,
                   status, result, device_out, device_cfg, issued, unsolicited,
                   built_for, built>>

SpecParser == Init /\ [][CallAccept]_vars

\* The start offset and the length of a chunk: bytes 3-4 and byte 5.
ChunkStart(data) == 256 * data[4] + data[5]

ChunkLength(data) == data[6]

\* C14. Fed the acknowledgments of the 11 packets of the read command for
\* L = 635 in order, ProfileParser::accept returns Ok(None) for each of the
\* first 10 and the result of the decode for the 11th (the LightProfile
\* decoded from the buffer, or the decode's error when the config index is
\* above 3). Whatever the order, a call that returns does so with the
\* decode's result exactly when start offset + chunk length = 635, and has
\* stored the chunk's bytes at [start, start + length) of the buffer,
\* which is otherwise unchanged and stays 635 bytes long.
C14_Completion ==
    [][chunk' # chunk \/ accepted' # accepted \/ fed' # fed =>
          LET start == ChunkStart(chunk')
              len   == ChunkLength(chunk')
          IN  /\ (fed' >= 1 /\ fed' <= 10) => accepted' = "none"
              /\ fed' = 11 =>
                    /\ accepted' = (IF color_buf'[1] <= 3 THEN "some" ELSE "err")
                    /\ color_buf' = DeviceProfile(device_cfg)
              /\ accepted' # "panic" =>
                    /\ (accepted' \in {"some", "err"}) <=> (start + len = 635)
                    /\ Len(color_buf') = 635
                    /\ SubSeq(color_buf', start + 1, start + len)
                          = SubSeq(chunk', 7, 6 + len)
                    /\ SubSeq(color_buf', 1, start) = SubSeq(color_buf, 1, start)
                    /\ SubSeq(color_buf', start + len + 1, 635)
                          = SubSeq(color_buf, start + len + 1, 635)]_vars

\* C14 witness: the 11 chunks have been fed in order and the 11th call
\* returned the decoded profile.
C14_Witness ==
    /\ fed = 11
    /\ accepted = "some"
    /\ chunk = BuilderChunk(1, 11)

\* C15. A chunk with start offset + chunk length > 635 makes
\* ProfileParser::accept panic with the buffer left as it was; the buffer
\* is 635 bytes long in every state.
C15_OverflowFatal ==
    [][/\ (/\ chunk' # chunk \/ accepted' # accepted \/ fed' # fed
           /\ ChunkStart(chunk') + ChunkLength(chunk') > 635) =>
              /\ accepted' = "panic"
              /\ color_buf' = color_buf
       /\ Len(color_buf) = 635
       /\ Len(color_buf') = 635]_vars

\* C15 witness: the chunk at offset 580 of length 58 (638 > 635) has made
\* the call panic after ten chunks were stored.
C15_Witness ==
    /\ accepted = "panic"
    /\ fed = -1
    /\ ChunkStart(chunk) = 580
    /\ ChunkLength(chunk) = 58
    /\ SubSeq(color_buf, 1, 580) = SubSeq(DeviceProfile(device_cfg), 1, 580)
    /\ color_buf[581] = 0

\* The head of the write queue is written by the next write step: it is
\* Queued, or has waited for its ack for more than 200 ms.
HeadDue ==
    /\ write_queue # <<>>
    /\ \/ Head(write_queue).state.tag = "Queued"
       \/ Head(write_queue).state.tag = "WaitingForAck"
            /\ now > Head(write_queue).state.timestamp + ACK_TIMEOUT_MS

\* C16. A transport failure ends the worker loop: a write step that writes
\* nothing although the head was due (the write of the head failed) stops
\* the worker; a step that stops the worker reads nothing and, in the write
\* step, writes no packet after the failed one; once stopped the worker stays
\* stopped and nothing is written to or read from the transport.
C16_TransportFailure ==
    [][/\ (pc = "write" /\ HeadDue /\ wrote' = <<>>) => pc' = "stopped"
       /\ (Running /\ pc' = "stopped") =>
             /\ pc \in {"write", "read"}
             /\ buf' = <<>>
             /\ pc = "read" => wrote' = <<>>
             /\ pc = "write" =>
                   /\ HeadDue
                   /\ Len(wrote') < Len(write_queue)
                   /\ \A i \in 1..Len(wrote') :
                         /\ wrote'[i] = write_queue[i].data
                         /\ ~write_queue[i].needs_ack
       /\ pc = "stopped" =>
             /\ pc' = "stopped"
             /\ wrote' = wrote
             /\ buf' = buf
             /\ device_out' = device_out
             /\ write_queue' = write_queue]_vars

\* C16 witness: the worker has stopped on a transport failure after it had
\* resolved the first Request and while the second was current.
C16_Witness ==
    /\ pc = "stopped"
    /\ issued = 2
    /\ status[1] = "resolved"
    /\ status[2] = "cancelled"
    /\ unsolicited = 0

\* The Requests the worker holds or will get: the request queue, then the
\* current Request.
Pending ==
    request_queue \o (IF current_req = None THEN <<>> ELSE <<current_req>>)

\* C17. The request queue is a FIFO under any interleaving of pushes with
\* the worker's pops: a step leaves it unchanged, or appends one Request at
\* its back (push), or removes its head, which becomes the current Request
\* (pop); a pop on the empty queue returns nothing, leaves it empty and the
\* worker goes on to its write step; no Request with a completion slot is in
\* the queue twice or both queued and current, and the Request of every
\* awaiting caller is there.
C17_Fifo ==
    [][/\ \/ request_queue' = request_queue
          \/ /\ Len(request_queue') = Len(request_queue) + 1
             /\ SubSeq(request_queue', 1, Len(request_queue)) = request_queue
             /\ issued' = issued + 1
          \/ /\ request_queue # <<>>
             /\ request_queue' = Tail(request_queue)
             /\ current_req' = Head(request_queue)
             /\ DispatchStep
       /\ (pc = "dispatch" /\ request_queue = <<>> /\ issued' = issued) =>
             /\ request_queue' = <<>>
             /\ current_req' = current_req
             /\ pc' = "write"
       /\ \A i, j \in 1..Len(Pending) :
             (i # j /\ SenderOf(Pending[i]) # {}) =>
                 SenderOf(Pending[i]) # SenderOf(Pending[j])
       /\ \A c \in Callers :
             status[c] = "waiting" =>
                 \E i \in 1..Len(Pending) : SenderOf(Pending[i]) = {c}]_vars

\* C17 witness: two callers have pushed, the worker has popped the Request
\* of the first, and that of the second is the head of the queue.
C17_Witness ==
    /\ pc = "write"
    /\ current_req = GetFirmwareVersion(1)
    /\ request_queue = <<GetColorProfile(2)>>
    /\ write_queue = <<RequestPacket(READ_FW_VERSION_COMMAND, Queued, TRUE)>>

\* C18 as stated. With a device that answers every command packet written
\* to it, resent ones included, with exactly one acknowledgment, possibly
\* later than 200 ms: a packet that is not a state report is read only while
\* the head of the write queue waits for its ack, it is the answer to that
\* head, and the worker does not panic.
C18_RetransmissionSafe ==
    [][PacketRead =>
          /\ HeadWaiting(write_queue)
          /\ <<buf'>> = DeviceAnswer(Head(write_queue).data, DeviceProfile(device_cfg))
          /\ pc' # "panicked"]_vars

\* C19 as stated (its second half). Once the heartbeat packet has been
\* written and removed from the write queue, the worker has no current
\* Request: Heartbeat is the current Request only while its packet is in the
\* write queue.
C19_HeartbeatFrees ==
    (Running /\ current_req = Heartbeat) =>
        \E i \in 1..Len(write_queue) : write_queue[i].data = HEARTBEAT_COMMAND

\* C20. Stop-and-wait: in every state only the head of the write queue may
\* be WaitingForAck, every packet behind it is Queued. A write step writes
\* the first n packets of the queue in order, of which all but the last need
\* no ack and are removed, and leaves the packets behind them as they were:
\* a packet is written only when no needs_ack packet is ahead of it, and a
\* Queued packet has never been written. The dispatch step appends Queued
\* packets only; a read removes the head or nothing; no other step touches
\* the queue.
C20_StopAndWait ==
    [][/\ \A j \in 2..Len(write_queue) : write_queue[j].state = Queued
       /\ WriteStep =>
             LET n == Len(wrote')
             IN  /\ n <= Len(write_queue)
                 /\ \A i \in 1..n :
                       /\ wrote'[i] = write_queue[i].data
                       /\ i < n => ~write_queue[i].needs_ack
                 /\ write_queue' =
                       IF n = 0 THEN write_queue
                       ELSE (IF write_queue[n].needs_ack
                             THEN <<[write_queue[n] EXCEPT
                                        !.state = WaitingForAck(now')]>>
                             ELSE <<>>)
                            \o SubSeq(write_queue, n + 1, Len(write_queue))
       /\ DispatchStep =>
             /\ SubSeq(write_queue', 1, Len(write_queue)) = write_queue
             /\ \A j \in (Len(write_queue) + 1)..Len(write_queue') :
                   write_queue'[j].state = Queued
       /\ ReadStep =>
             IF write_queue = <<>> THEN write_queue' = write_queue
             ELSE write_queue' = write_queue \/ write_queue' = Tail(write_queue)
       /\ (Running' /\ pc' = pc) => write_queue' = write_queue]_vars

\* C20 witness: the first packet of a profile read has been written and
\* waits for its ack at the head; the ten packets behind it are Queued.
C20_Witness ==
    /\ pc = "read"
    /\ Len(write_queue) = 11
    /\ HeadWaiting(write_queue)
    /\ wrote = <<Head(write_queue).data>>
    /\ \A j \in 2..11 : write_queue[j].state = Queued

====
